---- MODULE Spec2Model ----
(***************************************************************************)
(* Model of src/bot.js: the Slack event webhook handler `run` and its      *)
(* helpers verifyCall, handleMessage, parseMessage, sendSlackMessage and   *)
(* invalidateDistribution.  One behaviour is one invocation of `run`.      *)
(* The handler is cut at its two suspension points (the awaits of lines    *)
(* 87 and 88/92); the outcome of each external call is chosen by the       *)
(* environment.                                                            *)
(***************************************************************************)
EXTENDS Integers, Sequences, FiniteSets, TLC

VARIABLES data, env, pc, response, returned, rejection, calls

vars == <<data, env, pc, response, returned, rejection, calls>>

\* ------------------------------------------------------------------ bounds
\* longest message text, counted in atoms (a space, or a maximal run of
\* non-space characters)
MaxTextLen == 5

\* ------------------------------------------------------- JavaScript values
\* the value a missing property reads as
UNDEF == "<undefined>"

\* a text is a sequence of atoms: SP is one space character, any other atom
\* is a maximal run of non-space characters, so no two of them are adjacent
SP == " "
Words == {"@bot", "invalidate_cdn", "foobar"}
Atoms == Words \cup {SP}

Seqs(S, n) == UNION {[1..k -> S] : k \in 0..n}

WellFormedText(t) == \A i \in 1..(Len(t) - 1) : ~(t[i] \in Words /\ t[i + 1] \in Words)

Texts == {t \in Seqs(Atoms, MaxTextLen) : WellFormedText(t)}

\* String.prototype.split(' '): the pieces between the spaces; an empty piece
\* is the empty string
RECURSIVE SplitFrom(_, _, _)
SplitFrom(t, i, piece) ==
    IF i > Len(t) THEN <<piece>>
    ELSE IF t[i] = SP THEN <<piece>> \o SplitFrom(t, i + 1, "")
    ELSE SplitFrom(t, i + 1, piece \o t[i])

\* String.prototype.split(' ', limit): split, then keep the first `limit`
Split(t, limit) ==
    LET all == SplitFrom(t, 1, "")
    IN  IF Len(all) <= limit THEN all ELSE SubSeq(all, 1, limit)

\* Array.prototype.pop: the last element, undefined for the empty array
Pop(a) == IF Len(a) = 0 THEN UNDEF ELSE a[Len(a)]

\* truthiness of a string-valued property
Truthy(v) == v # UNDEF /\ v # ""

\* ---------------------------------------------------------------- inputs
Secrets == {"s1", "s2"}
Challenges == {"c1", "c2"}
Channels == {"C1", "C2"}
BotIds == {"B1"}
BotNames == {"jarvis", "alfred"}
InvalidationIds == {"I1", "I2"}
Times == {1, 2}
HeaderNames == {"X-Slack-Retry-Num", "Content-Type"}

NoMessage == [present |-> FALSE, bot_id |-> UNDEF, text |-> <<>>, channel |-> UNDEF]

Messages == [present : {TRUE}, bot_id : BotIds \cup {UNDEF}, text : Texts, channel : Channels]

NullValue == [isNull |-> TRUE, type |-> UNDEF, token |-> UNDEF, challenge |-> UNDEF, event |-> NoMessage]

UrlVerifications ==
    [isNull : {FALSE}, type : {"url_verification"}, token : Secrets \cup {UNDEF},
     challenge : Challenges \cup {UNDEF}, event : {NoMessage}]

EventCallbacks ==
    [isNull : {FALSE}, type : {"event_callback"}, token : {"s1"},
     challenge : {UNDEF}, event : Messages \cup {NoMessage}]

OtherEvents ==
    [isNull : {FALSE}, type : {"app_rate_limited", UNDEF}, token : {"s1"},
     challenge : {UNDEF}, event : {NoMessage}]

JsonValues == {NullValue} \cup UrlVerifications \cup EventCallbacks \cup OtherEvents

\* data.body: a string that is the JSON text of a value, or is not JSON
Bodies == [json : {TRUE}, value : JsonValues] \cup [json : {FALSE}, value : {NullValue}]

Headers == {[h \in S |-> "1"] : S \in SUBSET HeaderNames}

Envs == [VERIFICATION_TOKEN : Secrets \cup {UNDEF}, BOT_NAME : BotNames,
         BOT_TOKEN : {"xoxb"}, CDN_DISTRIBUTION : {"E1"}]

\* ---------------------------------------------------------------- errors
StringError(s) == [t |-> "string", v |-> s]
ObjectError(name, ownProps) == [t |-> name, v |-> ownProps]

SyntaxErr == ObjectError("SyntaxError", "{}")
TypeErr == ObjectError("TypeError", "{}")
CloudFrontErr == ObjectError("AccessDenied", "{\"code\":\"AccessDenied\"}")
SlackErr == ObjectError("Error", "{}")
NoError == ObjectError("none", "")

\* JSON.stringify of a thrown value: a string is quoted, an object is the
\* JSON of its own enumerable properties
Stringify(err) == IF err.t = "string" THEN "\"" \o err.v \o "\"" ELSE err.v

\* ---------------------------------------------------------- response body
\* a string-valued property as a body: undefined when the property is missing
StrBody(s) == IF s = UNDEF THEN [t |-> "undefined", v |-> UNDEF] ELSE [t |-> "string", v |-> s]
ObjBody(s) == [t |-> "object", v |-> s]
EmptyObject == ObjBody("{}")
OkTrue == ObjBody("{ok:true}")

\* ------------------------------------------------------------ the handler
\* JSON.parse( data.body ), line 14
JSONparse(body) ==
    IF body.json
    THEN [threw |-> FALSE, value |-> body.value, err |-> NoError]
    ELSE [threw |-> TRUE, value |-> NullValue, err |-> SyntaxErr]

\* the response object of lines 17-22
DefaultResponse ==
    [statusCode |-> 200, body |-> EmptyObject, headers |-> [h \in {"X-Slack-No-Retry"} |-> 1]]

\* mutant of HasRetryHeader: tests for another header of a Slack retry
HasRetryHeader_WrongKey(headers) == "X-Slack-Retry-Reason" \in DOMAIN headers

\* 'X-Slack-Retry-Num' in data.headers, line 26
HasRetryHeader(headers) == "X-Slack-Retry-Num" \in DOMAIN headers

\* mutant of EmptyRequest: sets the body and leaves the status code
EmptyRequest_BodyOnly(r) == [r EXCEPT !.body = StrBody("Empty request")]

\* the default arm of the switch, lines 37-40
EmptyRequest(r) == [r EXCEPT !.statusCode = 400, !.body = StrBody("Empty request")]

\* mutant of Catch: sets the body and leaves the status code
Catch_BodyOnly(r, err) == [r EXCEPT !.body = StrBody(Stringify(err))]

\* the catch block, lines 44-48
Catch(r, err) == [r EXCEPT !.statusCode = 500, !.body = StrBody(Stringify(err))]

\* mutant of verifyCall: echoes the challenge without comparing the token
verifyCall_NoCheck(d) == [threw |-> FALSE, value |-> d.challenge, err |-> NoError]

\* verifyCall, lines 59-68: the challenge, or throws the string
verifyCall(d) ==
    IF d.token = env.VERIFICATION_TOKEN
    THEN [threw |-> FALSE, value |-> d.challenge, err |-> NoError]
    ELSE [threw |-> TRUE, value |-> UNDEF, err |-> StringError("Verification failed")]

\* parseMessage, lines 122-125
parseMessage(message) == Pop(Split(message, 2))

\* mutant of ConfirmationText: reads Id off the response itself, which is
\* undefined there
ConfirmationText_WrongPath(invalidationData) ==
    <<"Sir/Madam, I've just invalidated the cache, this is the invalidation ID. *",
      "undefined", "*">>

\* the template literal of line 89
ConfirmationText(invalidationData) ==
    <<"Sir/Madam, I've just invalidated the cache, this is the invalidation ID. *",
      invalidationData.Invalidation.Id, "*">>

\* mutant of HelpText: interpolates the bot token instead of the bot name
HelpText_WrongVariable ==
    <<"Sir/Madam, I don't understand what you need. Please use @",
      env.BOT_TOKEN, " invalidate_cdn to clear the CDN cache.">>

\* the template literal of line 93 (its two backquotes are left out of the
\* constant parts)
HelpText ==
    <<"Sir/Madam, I don't understand what you need. Please use @",
      env.BOT_NAME, " invalidate_cdn to clear the CDN cache.">>

\* sendSlackMessage, lines 105-115: the postMessage call it issues
sendSlackMessage(channel, message) ==
    [api |-> "chat.postMessage",
     params |-> [token |-> env.BOT_TOKEN, channel |-> channel, text |-> message],
     status |-> "pending", result |-> UNDEF]

\* invalidateDistribution, lines 131-158: the createInvalidation call it issues
invalidateDistribution(now) ==
    [api |-> "createInvalidation",
     params |-> [DistributionId |-> env.CDN_DISTRIBUTION,
                 InvalidationBatch |->
                     [CallerReference |-> ToString(now),
                      Paths |-> [Quantity |-> "1", Items |-> <<"/*">>]]],
     status |-> "pending", result |-> UNDEF]

\* mutant of handleMessage: no test of bot_id
handleMessage_NoBotCheck(message) ==
    IF ~message.present THEN "throw"
    ELSE IF parseMessage(message.text) = "invalidate_cdn" THEN "invalidate"
    ELSE "help"

\* handleMessage, lines 75-97, up to its first suspension: what it does next
handleMessage(message) ==
    IF ~message.present THEN "throw"
    ELSE IF Truthy(message.bot_id) THEN "nothing"
    ELSE IF parseMessage(message.text) = "invalidate_cdn" THEN "invalidate"
    ELSE "help"

\* the finally block, lines 49-52
Return(r) ==
    /\ response' = r
    /\ returned' = Append(returned, r)
    /\ pc' = "returned"

\* the pending call settles
Settle(status, result) ==
    [calls EXCEPT ![Len(calls)].status = status, ![Len(calls)].result = result]

Init ==
    /\ data \in [body : Bodies, headers : Headers]
    /\ env \in Envs
    /\ pc = "start"
    /\ response = DefaultResponse
    /\ returned = <<>>
    /\ rejection = NoError
    /\ calls = <<>>

\* run, lines 12-53, up to its first suspension
run ==
    /\ pc = "start"
    /\ LET parsed == JSONparse(data.body)
           dataObject == parsed.value
       IN  IF parsed.threw
           THEN /\ pc' = "rejected"
                /\ rejection' = parsed.err
                /\ UNCHANGED <<response, returned, calls>>
           ELSE /\ rejection' = rejection
                /\ IF HasRetryHeader(data.headers)
                   THEN Return(DefaultResponse) /\ calls' = calls
                   ELSE IF dataObject.isNull
                   THEN Return(Catch(DefaultResponse, TypeErr)) /\ calls' = calls
                   ELSE IF dataObject.type = "url_verification"
                   THEN LET v == verifyCall(dataObject)
                        IN  /\ calls' = calls
                            /\ IF v.threw
                               THEN Return(Catch(DefaultResponse, v.err))
                               ELSE Return([DefaultResponse EXCEPT !.body = StrBody(v.value)])
                   ELSE IF dataObject.type = "event_callback"
                   THEN LET step == handleMessage(dataObject.event)
                        IN  CASE step = "throw" ->
                                    Return(Catch(DefaultResponse, TypeErr)) /\ calls' = calls
                              [] step = "nothing" ->
                                    Return([DefaultResponse EXCEPT !.body = OkTrue]) /\ calls' = calls
                              [] step = "invalidate" ->
                                    /\ \E now \in Times : calls' = Append(calls, invalidateDistribution(now))
                                    /\ pc' = "awaitInvalidation"
                                    /\ UNCHANGED <<response, returned>>
                              [] step = "help" ->
                                    /\ calls' = Append(calls, sendSlackMessage(dataObject.event.channel, HelpText))
                                    /\ pc' = "awaitSend"
                                    /\ UNCHANGED <<response, returned>>
                   ELSE Return(EmptyRequest(DefaultResponse)) /\ calls' = calls
    /\ UNCHANGED <<data, env>>

\* createInvalidation calls back with data, line 155; handleMessage resumes
\* at line 88
createInvalidationResolve ==
    /\ pc = "awaitInvalidation"
    /\ \E id \in InvalidationIds :
          LET invalidationData == [Invalidation |-> [Id |-> id]]
              message == data.body.value.event
          IN  calls' = Append(Settle("resolved", id),
                              sendSlackMessage(message.channel, ConfirmationText(invalidationData)))
    /\ pc' = "awaitSend"
    /\ UNCHANGED <<data, env, response, returned, rejection>>

\* createInvalidation calls back with err, line 154; the rejection unwinds
\* to the catch of run
createInvalidationReject ==
    /\ pc = "awaitInvalidation"
    /\ calls' = Settle("rejected", CloudFrontErr.t)
    /\ Return(Catch(response, CloudFrontErr))
    /\ UNCHANGED <<data, env, rejection>>

\* postMessage resolves; handleMessage returns and run resumes at line 35
postMessageResolve ==
    /\ pc = "awaitSend"
    /\ calls' = Settle("resolved", "ok")
    /\ Return([response EXCEPT !.body = OkTrue])
    /\ UNCHANGED <<data, env, rejection>>

\* postMessage rejects; the rejection unwinds to the catch of run
postMessageReject ==
    /\ pc = "awaitSend"
    /\ calls' = Settle("rejected", SlackErr.t)
    /\ Return(Catch(response, SlackErr))
    /\ UNCHANGED <<data, env, rejection>>

Next ==
    \/ run
    \/ createInvalidationResolve
    \/ createInvalidationReject
    \/ postMessageResolve
    \/ postMessageReject

Spec == Init /\ [][Next]_vars

TypeOK ==
    /\ pc \in {"start", "awaitInvalidation", "awaitSend", "returned", "rejected"}
    /\ Len(returned) <= 1
    /\ Len(calls) <= 2


\* ------------------------------------------------- vocabulary of the claims
RetryHeaderPresent == "X-Slack-Retry-Num" \in DOMAIN data.headers

\* the body parsed to an object (not to null)
ParsedEvent == data.body.json /\ ~data.body.value.isNull

EventType == data.body.value.type

\* the message of an event_callback
Msg == data.body.value.event

Awaiting == pc \in {"awaitInvalidation", "awaitSend"}

IndicesOf(api) == {i \in 1..Len(calls) : calls[i].api = api}

InvalidationCallCount == Cardinality(IndicesOf("createInvalidation"))

SendCallCount == Cardinality(IndicesOf("chat.postMessage"))

PendingCalls == {i \in 1..Len(calls) : calls[i].status = "pending"}

Contains(text, part) == \E i \in 1..Len(text) : text[i] = part

\* the second space-separated token of a text, undefined when it has fewer
\* than two
SecondToken(text) ==
    LET tokens == SplitFrom(text, 1, "")
    IN  IF Len(tokens) >= 2 THEN tokens[2] ELSE UNDEF

\* an event_callback that reaches the command switch of handleMessage
RoutedMessage ==
    /\ ParsedEvent
    /\ ~RetryHeaderPresent
    /\ EventType = "event_callback"
    /\ Msg.present
    /\ Msg.bot_id = UNDEF

\* ------------------------------------------------------------------ claims

\* C1: when the body parses as JSON and the headers hold X-Slack-Retry-Num,
\* the handler never issues an external call, never suspends, never rejects,
\* and what it returns is the default response: 200, body {}, header
\* X-Slack-No-Retry.
C1_RetryIsIgnored ==
    (data.body.json /\ RetryHeaderPresent) =>
        /\ calls = <<>>
        /\ ~Awaiting
        /\ pc # "rejected"
        /\ pc = "returned" =>
              /\ Len(returned) = 1
              /\ returned[1].statusCode = 200
              /\ returned[1].body = EmptyObject
              /\ DOMAIN returned[1].headers = {"X-Slack-No-Retry"}

C1_Witness ==
    /\ pc = "returned"
    /\ ParsedEvent
    /\ RetryHeaderPresent
    /\ EventType = "event_callback"
    /\ Msg.present
    /\ Msg.bot_id = UNDEF
    /\ Msg.text = <<"@bot", SP, "invalidate_cdn">>

\* C2: an invocation that has ended has produced exactly one response, and
\* that response carries the header X-Slack-No-Retry.
C2_OneResponsePerInvocation ==
    pc \in {"returned", "rejected"} =>
        /\ Len(returned) = 1
        /\ "X-Slack-No-Retry" \in DOMAIN returned[1].headers

\* C3: a request whose body is not JSON ends with a response of statusCode 500.
C3_BadJsonIs500 ==
    (~data.body.json /\ pc # "start") =>
        /\ pc = "returned"
        /\ Len(returned) = 1
        /\ returned[1].statusCode = 500

\* C4: a url_verification request without the retry header issues no
\* external call, and its response is 200 with the challenge as body exactly
\* when event.token equals the verification secret, and is 500 otherwise.
C4_UrlVerification ==
    (ParsedEvent /\ ~RetryHeaderPresent /\ EventType = "url_verification") =>
        /\ calls = <<>>
        /\ ~Awaiting
        /\ pc # "rejected"
        /\ pc = "returned" =>
              /\ Len(returned) = 1
              /\ (/\ returned[1].statusCode = 200
                  /\ returned[1].body = StrBody(data.body.value.challenge))
                    <=> (data.body.value.token = env.VERIFICATION_TOKEN)
              /\ data.body.value.token # env.VERIFICATION_TOKEN
                    => returned[1].statusCode = 500

C4_Witness ==
    /\ pc = "returned"
    /\ ParsedEvent
    /\ ~RetryHeaderPresent
    /\ EventType = "url_verification"
    /\ data.body.value.token = "s1"
    /\ env.VERIFICATION_TOKEN = "s1"
    /\ returned = <<[DefaultResponse EXCEPT !.body = [t |-> "string", v |-> "c2"]]>>

\* C5: for a routed message whose second space-separated token is
\* invalidate_cdn, at most one invalidation call and at most one send are
\* ever made, and once the handler has returned with every call made having
\* succeeded, the calls are exactly: one invalidation, then one send to
\* event.channel whose text contains the identifier the invalidation
\* returned; the response is 200 with body {ok: true}.
C5_InvalidateThenConfirm ==
    (RoutedMessage /\ SecondToken(Msg.text) = "invalidate_cdn") =>
        /\ InvalidationCallCount <= 1
        /\ SendCallCount <= 1
        /\ (pc = "returned" /\ \A i \in 1..Len(calls) : calls[i].status = "resolved") =>
              /\ Len(calls) = 2
              /\ calls[1].api = "createInvalidation"
              /\ calls[1].result \in InvalidationIds
              /\ calls[2].api = "chat.postMessage"
              /\ calls[2].params.channel = Msg.channel
              /\ Contains(calls[2].params.text, calls[1].result)
              /\ Len(returned) = 1
              /\ returned[1].statusCode = 200
              /\ returned[1].body = OkTrue

C5_Witness ==
    /\ RoutedMessage
    /\ Msg.text = <<"@bot", SP, "invalidate_cdn", SP, "foobar">>
    /\ Msg.channel = "C2"
    /\ pc = "returned"
    /\ Len(calls) = 2
    /\ calls[1].status = "resolved"
    /\ calls[1].result = "I2"
    /\ calls[2].status = "resolved"

\* C6: an event_callback without the retry header whose event.bot_id is set
\* issues no external call, whatever its text, and its response is 200 with
\* body {ok: true}.
C6_BotMessagesAreIgnored ==
    (/\ ParsedEvent
     /\ ~RetryHeaderPresent
     /\ EventType = "event_callback"
     /\ Msg.present
     /\ Msg.bot_id \in BotIds) =>
        /\ calls = <<>>
        /\ ~Awaiting
        /\ pc # "rejected"
        /\ pc = "returned" =>
              /\ Len(returned) = 1
              /\ returned[1].statusCode = 200
              /\ returned[1].body = OkTrue

C6_Witness ==
    /\ pc = "returned"
    /\ ParsedEvent
    /\ ~RetryHeaderPresent
    /\ EventType = "event_callback"
    /\ Msg.present
    /\ Msg.bot_id = "B1"
    /\ Msg.text = <<"@bot", SP, "invalidate_cdn">>

\* C7: for a routed message whose command (the value the switch of
\* handleMessage dispatches on) is not invalidate_cdn, no invalidation call
\* is ever made, and from the first step on exactly one send has been made:
\* to event.channel, with the help text, which names the configured bot.
C7_OtherCommandsGetHelp ==
    (RoutedMessage /\ Pop(Split(Msg.text, 2)) # "invalidate_cdn") =>
        /\ InvalidationCallCount = 0
        /\ pc = "start" => calls = <<>>
        /\ pc # "start" =>
              /\ Len(calls) = 1
              /\ calls[1].api = "chat.postMessage"
              /\ calls[1].params.channel = Msg.channel
              /\ Len(calls[1].params.text) = 3
              /\ calls[1].params.text[1] =
                    "Sir/Madam, I don't understand what you need. Please use @"
              /\ calls[1].params.text[2] = env.BOT_NAME
              /\ calls[1].params.text[3] = " invalidate_cdn to clear the CDN cache."

C7_Witness ==
    /\ RoutedMessage
    /\ Msg.text = <<"@bot", SP, "foobar">>
    /\ env.BOT_NAME = "alfred"
    /\ pc = "returned"
    /\ Len(calls) = 1
    /\ calls[1].status = "resolved"
    /\ Contains(calls[1].params.text, "alfred")

\* C8: a request without the retry header whose parsed event has a type
\* other than url_verification and event_callback, or none, issues no
\* external call and its response is 400 with body 'Empty request'.
C8_UnknownTypeIs400 ==
    (/\ ParsedEvent
     /\ ~RetryHeaderPresent
     /\ EventType \notin {"url_verification", "event_callback"}) =>
        /\ calls = <<>>
        /\ ~Awaiting
        /\ pc # "rejected"
        /\ pc = "returned" =>
              /\ Len(returned) = 1
              /\ returned[1].statusCode = 400
              /\ returned[1].body = [t |-> "string", v |-> "Empty request"]

C8_Witness ==
    /\ pc = "returned"
    /\ ParsedEvent
    /\ ~RetryHeaderPresent
    /\ EventType = UNDEF
    /\ returned[1].statusCode = 400

\* C9: for a routed message, an invalidation call is made exactly when the
\* second space-separated token of the text is invalidate_cdn; a text of
\* fewer than two tokens gets the help send and no invalidation call.
C9_CommandIsSecondToken ==
    (RoutedMessage /\ pc # "start") =>
        /\ (InvalidationCallCount > 0) <=> (SecondToken(Msg.text) = "invalidate_cdn")
        /\ SecondToken(Msg.text) = UNDEF =>
              /\ InvalidationCallCount = 0
              /\ calls[1].api = "chat.postMessage"

\* C10: at most one external call is pending at any time; a call made after
\* the invalidation call is made only once that call has resolved; no call is
\* made twice; a rejected invalidation leaves no send and a 500 response; a
\* rejected send leaves a 500 response.
C10_SequentialCalls ==
    /\ Cardinality(PendingCalls) <= 1
    /\ InvalidationCallCount <= 1
    /\ SendCallCount <= 1
    /\ \A i \in IndicesOf("createInvalidation") :
          /\ i = 1
          /\ Len(calls) > i => calls[i].status = "resolved"
          /\ calls[i].status = "rejected" =>
                /\ SendCallCount = 0
                /\ pc = "returned"
                /\ Len(returned) = 1
                /\ returned[1].statusCode = 500
    /\ \A j \in IndicesOf("chat.postMessage") :
          calls[j].status = "rejected" =>
                /\ j = Len(calls)
                /\ pc = "returned"
                /\ Len(returned) = 1
                /\ returned[1].statusCode = 500
                /\ returned[1].body # OkTrue

C10_Witness ==
    /\ pc = "returned"
    /\ Len(calls) = 2
    /\ calls[1].api = "createInvalidation"
    /\ calls[1].status = "resolved"
    /\ calls[2].api = "chat.postMessage"
    /\ calls[2].status = "rejected"
    /\ returned[1].statusCode = 500

====
